---- MODULE Spec2Model ----
(***************************************************************************)
(* NextDNS log downloader (src/nextdns_logs.py): the command-line entry    *)
(* point main(), the pagination loop download_all_logs(), the page fetcher *)
(* get_logs() and the two exporters, as one sequential state machine.      *)
(*                                                                         *)
(* Encodings.  A Python Optional is a sequence of length 0 (None) or 1.    *)
(* A cursor string is a number: 0 is the empty string "" (falsy in         *)
(* Python), k > 0 is a non-empty opaque token.  A log record is the        *)
(* number of its position in the API's delivery order.                     *)
(***************************************************************************)
EXTENDS Integers, Sequences, FiniteSets, TLC

VARIABLES
    api_key,      \* args.api_key: None, "" or a key
    profile,      \* args.profile: None, "" or a profile id
    max_logs,     \* args.max_logs: None or an int
    json_only,    \* args.json_only
    csv_only,     \* args.csv_only
    pc,           \* position of the process in main / download_all_logs
    all_logs,     \* download_all_logs: the accumulation buffer
    cursor,       \* download_all_logs: the cursor of the next request
    page,         \* download_all_logs: the page counter
    response,     \* download_all_logs: what the last get_logs call returned
    hist,         \* the API's responses so far, one per request
    sent,         \* the cursor parameter of every request so far
    requests,     \* number of HTTP requests issued by session.get
    sleeps,       \* number of time.sleep(0.5) calls
    json_file,    \* <output>.json: "absent", "partial" (opened, not all written) or "written"
    csv_file,     \* <output>.csv: "absent", "partial" or "written"
    truncations,  \* number of times all_logs was cut to all_logs[:max_logs]
    error,        \* what ended the process abnormally, "none" otherwise
    exit_status,  \* None while running, else the process exit status
    logs_in,      \* save_to_csv: its argument logs, a sequence of nested records
    csv_pc,       \* save_to_csv: "input", "saved" (file written) or "noop" (no logs)
    flattened,    \* save_to_csv: _flatten_dict(log) of every log, in order
    fieldnames,   \* save_to_csv: the header row
    rows          \* save_to_csv: the data rows, each a sequence of cells

vars == <<api_key, profile, max_logs, json_only, csv_only, pc, all_logs, cursor,
          page, response, hist, sent, requests, sleeps, json_file, csv_file,
          truncations, error, exit_status, logs_in, csv_pc, flattened, fieldnames,
          rows>>

\* The variables of save_to_csv's content, which main's control flow leaves alone.
csvvars == <<logs_in, csv_pc, flattened, fieldnames, rows>>

args == <<api_key, profile, max_logs, json_only, csv_only>>

----------------------------------------------------------------------------
(* Bounds of the model. *)

\* Largest page the simulated API serves.
MaxPage == 2
\* Number of records the simulated API holds at most.
MaxRecords == 6
\* Largest --max-logs value tried.
MaxCap == 3
\* Never reached by the program: every page that continues the loop holds a
\* record, so a run issues at most MaxRecords + 1 requests.
MaxFetches == MaxRecords + 2
\* Number of requests after which a run against the API that never ends is
\* cut off; more than any run with a cap of at most MaxCap issues.
EndlessFetches == MaxCap + 3
\* Largest number of logs handed to save_to_csv.
MaxRows == 2

----------------------------------------------------------------------------
(* Values. *)

None == <<>>
Some(x) == <<x>>

Min(a, b) == IF a <= b THEN a ELSE b
Max(a, b) == IF a >= b THEN a ELSE b

\* Python truthiness of an Optional[str] encoded as above and of an Optional[int].
Truthy(v) == v # None /\ v[1] # 0

\* Mutant of TruthyStr: "is not None", so that "" counts as given.
TruthyStrNotNone(v) == v # None

\* Python truthiness of an Optional[str] argument value.
TruthyStr(v) == v # None /\ v[1] # ""

\* s[:n] of Python: the first n elements, or all but the last -n for n < 0.
Slice(s, n) ==
    IF n >= 0 THEN SubSeq(s, 1, Min(n, Len(s)))
    ELSE SubSeq(s, 1, Max(0, Len(s) + n))

\* The records d+1 .. d+n, in order.
Records(d, n) == [i \in 1..n |-> d + i]

\* Exceptions of session.get / raise_for_status / response.json that are
\* requests.exceptions.RequestException (Timeout, ConnectionError, HTTPError,
\* and requests' JSONDecodeError for a body that is not JSON).
RequestExceptions == {"timeout", "connection", "http_error", "invalid_json"}

\* A 2xx response whose body is JSON but not an object (a list, null, ...).
NotObject == "not_object"

\* The cursors a page can carry: none, the empty string, or the token of
\* this page.
PageCursors(k) == {None, Some(0), Some(k)}

\* What the API can answer to the k-th request when it has delivered d records.
Responses(d, k) ==
    [kind : {"ok"}, data : {Records(d, n) : n \in 0..Min(MaxPage, MaxRecords - d)},
     cursor : PageCursors(k)]
    \cup [kind : RequestExceptions \cup {NotObject}, data : {<<>>}, cursor : {None}]

\* What the API that never ends answers to the k-th request.
EndlessResponses(d, k) ==
    [kind : {"ok"}, data : {Records(d, n) : n \in 1..MaxPage}, cursor : {Some(k)}]

\* The records the API has delivered, given its responses so far.
RECURSIVE Delivered(_)
Delivered(h) ==
    IF h = <<>> THEN <<>>
    ELSE Delivered(SubSeq(h, 1, Len(h) - 1)) \o h[Len(h)].data

----------------------------------------------------------------------------
(* get_logs *)

EmptyPage == [isdict |-> TRUE, data |-> <<>>, cursor |-> None]

\* Mutant of CursorParam: the cursor is never sent.
CursorParamDropped(c) == None

\* The cursor parameter of the request: sent only when truthy.
CursorParam(c) == IF Truthy(c) THEN c ELSE None

\* Number of session.get calls of one get_logs call on API response r.
RequestsIssued(r) == 1

\* Mutant of Catches: only connection errors and timeouts are caught.
CatchesConnectionOnly(kind) == kind \in {"timeout", "connection"}

\* except requests.exceptions.RequestException: the failures it catches.
Catches(kind) == kind \in RequestExceptions

\* The outcome of get_logs on API response r: exc is the exception that
\* leaves get_logs ("none" when it returns) and value what it returns: the
\* parsed body, or the empty page when the exception was caught.  A body
\* that is not an object is returned as it is.
GetLogs(r) ==
    IF r.kind = "ok"
    THEN [exc |-> "none", value |-> [isdict |-> TRUE, data |-> r.data, cursor |-> r.cursor]]
    ELSE IF r.kind = NotObject
    THEN [exc |-> "none", value |-> [isdict |-> FALSE, data |-> <<>>, cursor |-> None]]
    ELSE IF Catches(r.kind)
    THEN [exc |-> "none", value |-> EmptyPage]
    ELSE [exc |-> r.kind, value |-> EmptyPage]

----------------------------------------------------------------------------
(* download_all_logs *)

\* Mutant of NoLogs: the empty-page check is missing.
NoLogsNever(logs) == FALSE

\* not logs
NoLogs(logs) == logs = <<>>

\* Mutant of Extend: the page replaces the buffer.
ExtendReplaces(buffer, logs) == logs

\* all_logs.extend(logs)
Extend(buffer, logs) == buffer \o logs

\* Mutant of CapReached: "max_logs is not None and ...", so that 0 is a cap.
CapReachedNotNone(cap, logs) == cap # None /\ Len(logs) >= cap[1]

\* Mutant of CapReached: ">" for ">=".
CapReachedExceeded(cap, logs) == Truthy(cap) /\ Len(logs) > cap[1]

\* max_logs and len(all_logs) >= max_logs
CapReached(cap, logs) == Truthy(cap) /\ Len(logs) >= cap[1]

\* all_logs[:max_logs]
Truncate(logs, cap) == Slice(logs, cap[1])

\* Mutant of NoCursor: "cursor is None", so that "" continues the loop.
NoCursorIsNone(c) == c = None

\* not cursor
NoCursor(c) == ~Truthy(c)

\* Exit status of parser.error (argparse: usage errors exit with 2).
UsageExit == 2
\* Exit status of a normal return of main.
NormalExit == 0
\* Mutant of ErrorExit: the except clauses do not call sys.exit(1).
ErrorExitMissing == NormalExit
\* Exit status of sys.exit(1) in the two except clauses of main.
ErrorExit == 1

\* Mutant of WritesJson: the JSON export ignores --csv-only.
WritesJsonAlways(c_only) == TRUE

\* if not args.csv_only: save_to_json
WritesJson(c_only) == ~c_only
\* if not args.json_only: save_to_csv
WritesCsv(j_only) == ~j_only

----------------------------------------------------------------------------
(* _flatten_dict and save_to_csv *)

(* A string is the sequence of its characters.  A value of a record is     *)
(* tagged: a scalar has a type and the text str() gives for it, a list has *)
(* items, a mapping (dict) has entries, the sequence of its key/value      *)
(* pairs in insertion order.                                               *)
ScalarValue(ty, text) ==
    [tag |-> "scalar", ty |-> ty, repr |-> text, items |-> <<>>, entries |-> <<>>]
ListValue(items) ==
    [tag |-> "list", ty |-> "list", repr |-> <<>>, items |-> items, entries |-> <<>>]
DictValue(entries) ==
    [tag |-> "dict", ty |-> "dict", repr |-> <<>>, items |-> <<>>, entries |-> entries]
Pair(k, v) == [k |-> k, v |-> v]

\* sep = '_'
Sep == <<"_">>
\* ', '
ListSep == <<",", " ">>

\* str(v) of a scalar.
Str(v) == v.repr

\* ', '.join(map(str, v))
RECURSIVE JoinStrs(_)
JoinStrs(items) ==
    IF items = <<>> THEN <<>>
    ELSE IF Len(items) = 1 THEN Str(items[1])
    ELSE Str(items[1]) \o ListSep \o JoinStrs(Tail(items))

\* ', '.join(map(str, v)) if v else ''
ListString(v) == ScalarValue("str", IF v.items # <<>> THEN JoinStrs(v.items) ELSE <<>>)

\* Mutant of NewKey: the separator is put before every key.
NewKeyAlwaysJoined(parent_key, sep, k) == parent_key \o sep \o k

\* new_key = f"{parent_key}{sep}{k}" if parent_key else k
NewKey(parent_key, sep, k) == IF parent_key # <<>> THEN parent_key \o sep \o k ELSE k

\* dict(items): a key keeps the place of its first pair and the value of
\* its last.
RECURSIVE PyDict(_)
PyDict(items) ==
    IF items = <<>> THEN <<>>
    ELSE LET init == PyDict(SubSeq(items, 1, Len(items) - 1))
             last == items[Len(items)]
         IN  IF \E i \in 1..Len(init) : init[i].k = last.k
             THEN [i \in 1..Len(init) |-> IF init[i].k = last.k THEN last ELSE init[i]]
             ELSE Append(init, last)

\* _flatten_dict(d, parent_key, sep), d given by its entries: FlattenItems
\* is the list items the loop builds, FlattenDict the dict(items) returned.
RECURSIVE FlattenItems(_, _, _), FlattenDict(_, _, _)
FlattenItems(entries, parent_key, sep) ==
    IF entries = <<>> THEN <<>>
    ELSE LET e == Head(entries)
             new_key == NewKey(parent_key, sep, e.k)
             here == IF e.v.tag = "dict" THEN FlattenDict(e.v.entries, new_key, sep)
                     ELSE IF e.v.tag = "list" THEN <<Pair(new_key, ListString(e.v))>>
                     ELSE <<Pair(new_key, e.v)>>
         IN  here \o FlattenItems(Tail(entries), parent_key, sep)

FlattenDict(entries, parent_key, sep) == PyDict(FlattenItems(entries, parent_key, sep))

\* The code point of a character of a key.
CodePoint(ch) ==
    CASE ch = "_" -> 95
      [] ch = "a" -> 97
      [] ch = "b" -> 98
      [] ch = "c" -> 99

\* x < y on strings: lexicographic by code point.
RECURSIVE StrLess(_, _)
StrLess(x, y) ==
    IF y = <<>> THEN FALSE
    ELSE IF x = <<>> THEN TRUE
    ELSE IF x[1] = y[1] THEN StrLess(Tail(x), Tail(y))
    ELSE CodePoint(x[1]) < CodePoint(y[1])

\* sorted(list(S)) of a set of strings.
RECURSIVE SortedList(_)
SortedList(S) ==
    IF S = {} THEN <<>>
    ELSE LET least == CHOOSE x \in S : \A y \in S \ {x} : StrLess(x, y)
         IN  <<least>> \o SortedList(S \ {least})

\* flat.keys()
KeysOf(flat) == {flat[i].k : i \in 1..Len(flat)}

\* The keys of the flattened logs in the order they are first met.
RECURSIVE FirstSeen(_)
FirstSeen(flats) ==
    IF flats = <<>> THEN <<>>
    ELSE LET before == FirstSeen(SubSeq(flats, 1, Len(flats) - 1))
             seen == {before[i] : i \in 1..Len(before)}
             flat == flats[Len(flats)]
         IN  before \o SelectSeq([i \in 1..Len(flat) |-> flat[i].k], LAMBDA k : k \notin seen)

\* Mutant of FieldNames: the keys are not sorted.
FieldNamesUnsorted(flats) == FirstSeen(flats)

\* fieldnames: the sorted union of the keys of all flattened logs.
FieldNames(flats) == SortedList(UNION {KeysOf(flats[i]) : i \in 1..Len(flats)})

\* The cell csv.DictWriter writes for key: str() of the value, or the
\* restval '' when the row has no such key.
Cell(flat, key) ==
    IF \E i \in 1..Len(flat) : flat[i].k = key
    THEN Str(flat[CHOOSE i \in 1..Len(flat) : flat[i].k = key].v)
    ELSE <<>>

\* writer.writerow(flattened)
RowOf(flat, names) == [j \in 1..Len(names) |-> Cell(flat, names[j])]

----------------------------------------------------------------------------
(* The state machine. *)

Keys == {None, Some(""), Some("k")}
Caps == {None} \cup {Some(n) : n \in (0 - 1)..MaxCap}

Init ==
    /\ api_key \in Keys
    /\ profile \in Keys
    /\ max_logs \in Caps
    /\ json_only \in BOOLEAN
    /\ csv_only \in BOOLEAN
    /\ pc = "args"
    /\ all_logs = <<>>
    /\ cursor = None
    /\ page = 1
    /\ response = EmptyPage
    /\ hist = <<>>
    /\ sent = <<>>
    /\ requests = 0
    /\ sleeps = 0
    /\ json_file = "absent"
    /\ csv_file = "absent"
    /\ truncations = 0
    /\ error = "none"
    /\ exit_status = None
    /\ logs_in = <<>>
    /\ csv_pc = "input"
    /\ flattened = <<>>
    /\ fieldnames = <<>>
    /\ rows = <<>>

\* main: argument validation, then the call of download_all_logs up to the
\* loop's head (all_logs = [], cursor = None, page = 1).
ParseArgs ==
    /\ pc = "args"
    /\ IF ~TruthyStr(api_key) \/ ~TruthyStr(profile)
       THEN /\ pc' = "exit"
            /\ error' = "usage"
            /\ exit_status' = Some(UsageExit)
            /\ UNCHANGED <<all_logs, cursor, page>>
       ELSE /\ pc' = "fetch"
            /\ all_logs' = <<>>
            /\ cursor' = None
            /\ page' = 1
            /\ UNCHANGED <<error, exit_status>>
    /\ UNCHANGED <<args, response, hist, sent, requests, sleeps, json_file, csv_file,
                   truncations>>
    /\ UNCHANGED csvvars

\* One iteration of the while loop on API response r, from the call of
\* get_logs to a break, to the sleep, or to the AttributeError that
\* response.get raises on a body that is not a dict (caught by main's except
\* Exception).
FetchStep(r) ==
    LET out == GetLogs(r)
        logs == out.value.data
        extended == Extend(all_logs, logs)
    IN
    /\ hist' = Append(hist, r)
    /\ sent' = Append(sent, CursorParam(cursor))
    /\ requests' = requests + RequestsIssued(r)
    /\ IF out.exc # "none"
       THEN /\ pc' = "exit"
            /\ error' = out.exc
            /\ exit_status' = Some(ErrorExit)
            /\ UNCHANGED <<response, all_logs, cursor, page, truncations>>
       ELSE IF ~out.value.isdict
       THEN /\ response' = out.value
            /\ pc' = "exit"
            /\ error' = "AttributeError"
            /\ exit_status' = Some(ErrorExit)
            /\ UNCHANGED <<all_logs, cursor, page, truncations>>
       ELSE /\ response' = out.value
            /\ UNCHANGED <<error, exit_status>>
            /\ IF NoLogs(logs)
               THEN /\ pc' = "returned"
                    /\ UNCHANGED <<all_logs, cursor, page, truncations>>
               ELSE IF CapReached(max_logs, extended)
               THEN /\ all_logs' = Truncate(extended, max_logs)
                    /\ truncations' = truncations + 1
                    /\ pc' = "returned"
                    /\ UNCHANGED <<cursor, page>>
               ELSE /\ all_logs' = extended
                    /\ cursor' = out.value.cursor
                    /\ truncations' = truncations
                    /\ IF NoCursor(cursor')
                       THEN pc' = "returned" /\ page' = page
                       ELSE pc' = "sleep" /\ page' = page + 1
    /\ UNCHANGED <<args, sleeps, json_file, csv_file>>
    /\ UNCHANGED csvvars

\* A loop iteration against the API that holds at most MaxRecords records.
FetchPage ==
    /\ pc = "fetch"
    /\ Len(hist) < MaxFetches
    /\ \E r \in Responses(Len(Delivered(hist)), Len(hist) + 1) : FetchStep(r)

\* A loop iteration against the API that never ends and never fails: every
\* page has records and a cursor.
FetchEndless ==
    /\ pc = "fetch"
    /\ Len(hist) < EndlessFetches
    /\ \E r \in EndlessResponses(Len(Delivered(hist)), Len(hist) + 1) : FetchStep(r)

\* Mutant of Sleep: the delay is left out.
SleepSkipped ==
    /\ pc = "sleep"
    /\ pc' = "fetch"
    /\ UNCHANGED <<args, all_logs, cursor, page, response, hist, sent, requests,
                   sleeps, json_file, csv_file, truncations, error, exit_status>>
    /\ UNCHANGED csvvars

\* time.sleep(0.5), then back to the head of the loop.
Sleep ==
    /\ pc = "sleep"
    /\ sleeps' = sleeps + 1
    /\ pc' = "fetch"
    /\ UNCHANGED <<args, all_logs, cursor, page, response, hist, sent, requests,
                   json_file, csv_file, truncations, error, exit_status>>
    /\ UNCHANGED csvvars

\* main after download_all_logs returned: no logs, no files.
CheckLogs ==
    /\ pc = "returned"
    /\ IF NoLogs(all_logs)
       THEN pc' = "exit" /\ exit_status' = Some(NormalExit)
       ELSE pc' = "json" /\ exit_status' = exit_status
    /\ UNCHANGED <<args, all_logs, cursor, page, response, hist, sent, requests,
                   sleeps, json_file, csv_file, truncations, error>>
    /\ UNCHANGED csvvars

\* main: the JSON export, unless --csv-only.
SaveJson ==
    /\ pc = "json"
    /\ json_file' = IF WritesJson(csv_only) THEN "written" ELSE json_file
    /\ pc' = "csv"
    /\ UNCHANGED <<args, all_logs, cursor, page, response, hist, sent, requests,
                   sleeps, csv_file, truncations, error, exit_status>>
    /\ UNCHANGED csvvars

\* main: the CSV export, unless --json-only.
SaveCsv ==
    /\ pc = "csv"
    /\ csv_file' = IF WritesCsv(json_only) THEN "written" ELSE csv_file
    /\ pc' = "complete"
    /\ UNCHANGED <<args, all_logs, cursor, page, response, hist, sent, requests,
                   sleeps, json_file, truncations, error, exit_status>>
    /\ UNCHANGED csvvars

\* main: "Download complete!" and the normal return.
Complete ==
    /\ pc = "complete"
    /\ pc' = "exit"
    /\ exit_status' = Some(NormalExit)
    /\ UNCHANGED <<args, all_logs, cursor, page, response, hist, sent, requests,
                   sleeps, json_file, csv_file, truncations, error>>
    /\ UNCHANGED csvvars

Next ==
    \/ ParseArgs
    \/ FetchPage
    \/ Sleep
    \/ CheckLogs
    \/ SaveJson
    \/ SaveCsv
    \/ Complete

Spec == Init /\ [][Next]_vars

\* The process is sequential and always takes its next step.
FairSpec == Spec /\ WF_vars(Next)

\* save_to_json, first part: open(filename, 'w') creates or empties the file.
\* Skipped with --csv-only.
OpenJson ==
    /\ pc = "json"
    /\ IF WritesJson(csv_only)
       THEN json_file' = "partial" /\ pc' = "json_dump"
       ELSE json_file' = json_file /\ pc' = "csv"
    /\ UNCHANGED <<args, all_logs, cursor, page, response, hist, sent, requests,
                   sleeps, csv_file, truncations, error, exit_status>>
    /\ UNCHANGED csvvars

\* save_to_json, second part: json.dump has written everything and the file
\* is closed.
DumpJson ==
    /\ pc = "json_dump"
    /\ json_file' = "written"
    /\ pc' = "csv"
    /\ UNCHANGED <<args, all_logs, cursor, page, response, hist, sent, requests,
                   sleeps, csv_file, truncations, error, exit_status>>
    /\ UNCHANGED csvvars

\* save_to_csv, first part: the field names are collected and open(filename,
\* 'w') creates or empties the file.  Skipped with --json-only.
OpenCsv ==
    /\ pc = "csv"
    /\ IF WritesCsv(json_only)
       THEN csv_file' = "partial" /\ pc' = "csv_rows"
       ELSE csv_file' = csv_file /\ pc' = "complete"
    /\ UNCHANGED <<args, all_logs, cursor, page, response, hist, sent, requests,
                   sleeps, json_file, truncations, error, exit_status>>
    /\ UNCHANGED csvvars

\* save_to_csv, second part: the header and every row are written and the
\* file is closed.
WriteCsv ==
    /\ pc = "csv_rows"
    /\ csv_file' = "written"
    /\ pc' = "complete"
    /\ UNCHANGED <<args, all_logs, cursor, page, response, hist, sent, requests,
                   sleeps, json_file, truncations, error, exit_status>>
    /\ UNCHANGED csvvars

\* The positions of main inside its try block.
InsideTry == {"fetch", "sleep", "returned", "json", "json_dump", "csv", "csv_rows",
              "complete"}

\* A KeyboardInterrupt raised anywhere inside the try block of main: except
\* KeyboardInterrupt prints and calls sys.exit(1).  A file that is open is
\* closed by its with statement and keeps what was written so far.
Interrupt ==
    /\ pc \in InsideTry
    /\ pc' = "exit"
    /\ error' = "KeyboardInterrupt"
    /\ exit_status' = Some(ErrorExit)
    /\ UNCHANGED <<args, all_logs, cursor, page, response, hist, sent, requests,
                   sleeps, json_file, csv_file, truncations>>
    /\ UNCHANGED csvvars

\* An OSError raised by open or by a write of an export that is under way:
\* except Exception prints and calls sys.exit(1).
ExportError ==
    /\ \/ pc = "json" /\ WritesJson(csv_only)
       \/ pc = "json_dump"
       \/ pc = "csv" /\ WritesCsv(json_only)
       \/ pc = "csv_rows"
    /\ pc' = "exit"
    /\ error' = "OSError"
    /\ exit_status' = Some(ErrorExit)
    /\ UNCHANGED <<args, all_logs, cursor, page, response, hist, sent, requests,
                   sleeps, json_file, csv_file, truncations>>
    /\ UNCHANGED csvvars

\* The program with its exports in two steps each, user interrupts and
\* export errors.
NextInt ==
    \/ ParseArgs
    \/ FetchPage
    \/ Sleep
    \/ CheckLogs
    \/ OpenJson
    \/ DumpJson
    \/ OpenCsv
    \/ WriteCsv
    \/ Complete
    \/ Interrupt
    \/ ExportError

SpecInt == Init /\ [][NextInt]_vars

\* The program against the API that never ends.
NextEndless ==
    \/ ParseArgs
    \/ FetchEndless
    \/ Sleep
    \/ CheckLogs
    \/ SaveJson
    \/ SaveCsv
    \/ Complete

SpecEndless == Init /\ [][NextEndless]_vars /\ WF_vars(NextEndless)

\* The scalars, values and key/value pairs the sample records are made of.
Int1 == ScalarValue("int", <<"1">>)
Int2 == ScalarValue("int", <<"2">>)
StrX == ScalarValue("str", <<"x">>)

SamplePairs ==
    {Pair(<<"a">>, v) : v \in {Int1,
                               ListValue(<<>>),
                               DictValue(<<>>),
                               DictValue(<<Pair(<<"b">>, Int1)>>),
                               DictValue(<<Pair(<<"b">>, ListValue(<<Int1, Int2>>))>>),
                               DictValue(<<Pair(<<"b">>, DictValue(<<Pair(<<"c">>, StrX)>>))>>)}}
    \cup {Pair(<<"a", "_", "b">>, StrX),
          Pair(<<"c">>, ListValue(<<Int1, Int2>>)),
          Pair(<<>>, DictValue(<<Pair(<<"b">>, Int2)>>))}

\* The records: mappings of at most two of the pairs, in either order.
SampleRecords ==
    {DictValue(<<>>)}
    \cup {DictValue(<<p>>) : p \in SamplePairs}
    \cup {DictValue(<<pq[1], pq[2]>>) :
             pq \in {x \in SamplePairs \X SamplePairs : x[1].k # x[2].k}}

\* main is at its call of save_to_csv; the logs are built by AddLog.
InitCsv ==
    /\ api_key = Some("k")
    /\ profile = Some("k")
    /\ max_logs = None
    /\ json_only = FALSE
    /\ csv_only = FALSE
    /\ pc = "csv"
    /\ all_logs = <<>>
    /\ cursor = None
    /\ page = 1
    /\ response = EmptyPage
    /\ hist = <<>>
    /\ sent = <<>>
    /\ requests = 0
    /\ sleeps = 0
    /\ json_file = "absent"
    /\ csv_file = "absent"
    /\ truncations = 0
    /\ error = "none"
    /\ exit_status = None
    /\ logs_in = <<>>
    /\ csv_pc = "input"
    /\ flattened = <<>>
    /\ fieldnames = <<>>
    /\ rows = <<>>

mainvars == <<api_key, profile, max_logs, json_only, csv_only, pc, all_logs, cursor,
              page, response, hist, sent, requests, sleeps, json_file, csv_file,
              truncations, error, exit_status>>

\* One more record in the logs that save_to_csv will be given.
AddLog ==
    /\ csv_pc = "input"
    /\ Len(logs_in) < MaxRows
    /\ \E rec \in SampleRecords : logs_in' = Append(logs_in, rec)
    /\ UNCHANGED <<mainvars, csv_pc, flattened, fieldnames, rows>>

\* save_to_csv(logs, filename): nothing for no logs; else the field names
\* over all logs, the header, and one row per log.
SaveToCsv ==
    /\ csv_pc = "input"
    /\ IF logs_in = <<>>
       THEN /\ csv_pc' = "noop"
            /\ UNCHANGED <<flattened, fieldnames, rows>>
       ELSE /\ csv_pc' = "saved"
            /\ flattened' = [i \in 1..Len(logs_in) |->
                                FlattenDict(logs_in[i].entries, <<>>, Sep)]
            /\ fieldnames' = FieldNames(flattened')
            /\ rows' = [i \in 1..Len(logs_in) |-> RowOf(flattened'[i], fieldnames')]
    /\ UNCHANGED <<mainvars, logs_in>>

NextCsv ==
    \/ AddLog
    \/ SaveToCsv

SpecCsv == InitCsv /\ [][NextCsv]_vars

----------------------------------------------------------------------------
(* Properties. *)

Last(s) == s[Len(s)]

\* download_all_logs has returned to main (no exception left it).
Returned == pc \in {"returned", "json", "csv", "complete"} \/ (pc = "exit" /\ error = "none")

\* C1: for every cap C >= 0 (or absent) and every API that delivers T records
\* over its pages, download_all_logs returns the first min(C, T) of the
\* delivered records when C <= T and all T records when C is absent or C > T,
\* in delivery order.
C1_ReturnsMinCapTotal ==
    (pc = "returned" /\ (max_logs = None \/ max_logs[1] >= 0)) =>
        LET D == Delivered(hist)
            T == Len(D)
        IN  IF max_logs # None /\ max_logs[1] <= T
            THEN all_logs = SubSeq(D, 1, Min(max_logs[1], T))
            ELSE all_logs = D

\* C2: with a configured cap C >= 0 the buffer never holds more than C
\* records, and it is truncated exactly once, when the cap is first met or
\* exceeded (never otherwise).
C2_BufferWithinCap ==
    (max_logs # None /\ max_logs[1] >= 0) =>
        /\ Len(all_logs) <= max_logs[1]
        /\ truncations <= 1
        /\ (Returned /\ Delivered(hist) # <<>> /\ Len(Delivered(hist)) >= max_logs[1])
               => truncations = 1
        /\ truncations = 1 => Len(Delivered(hist)) >= max_logs[1]

\* C3: a fetch that fails at transport level (timeout, connection error,
\* non-2xx status, body that is not JSON) does not raise out of get_logs: one
\* request is issued for it and get_logs returns the page with no records and
\* no cursor.
C3_FailureIsEmptyPage ==
    (hist # <<>> /\ Last(hist).kind \in RequestExceptions) =>
        /\ error = "none"
        /\ response = EmptyPage
        /\ requests = Len(hist)

\* C3 witness: the third fetch failed on a body that is not JSON and
\* download_all_logs returned the two pages before it.
C3_Witness ==
    /\ Len(hist) = 3
    /\ Last(hist).kind = "invalid_json"
    /\ pc = "returned"
    /\ response = EmptyPage
    /\ requests = 3

\* The sizes of the pages the API has returned.
PageSizes == [i \in 1..Len(hist) |-> Len(hist[i].data)]

AllOk == \A i \in 1..Len(hist) : hist[i].kind = "ok"

\* Three pages of two records and then an empty page, no cap.
ScenarioEmptyFourth ==
    max_logs = None /\ AllOk /\ PageSizes = <<2, 2, 2, 0>>

\* Three pages of two records, the third without a cursor, no cap.
ScenarioNoThirdCursor ==
    /\ max_logs = None /\ AllOk /\ PageSizes = <<2, 2, 2>>
    /\ ~Truthy(Last(hist).cursor)

\* C4 as stated: in the scenario of three pages of two records and then an
\* empty page, download_all_logs without a cap returns the six records in
\* order and the delay is invoked exactly twice.
C4_ScenarioTwoDelays ==
    (ScenarioEmptyFourth /\ pc = "returned") =>
        (all_logs = <<1, 2, 3, 4, 5, 6>> /\ sleeps = 2)

\* C4 amended: in that scenario the six records are returned in order and the
\* delay is invoked three times, the third before the request that the API
\* answers with the empty page; it is invoked exactly twice only when the
\* third page carries no cursor, and then no fourth request is issued.
C4_ScenarioThreeDelays ==
    /\ (ScenarioEmptyFourth /\ pc = "returned") =>
           (all_logs = <<1, 2, 3, 4, 5, 6>> /\ sleeps = 3 /\ requests = 4)
    /\ (ScenarioNoThirdCursor /\ pc # "sleep") =>
           (pc # "fetch" /\ all_logs = <<1, 2, 3, 4, 5, 6>> /\ sleeps = 2 /\ requests = 3)

\* C4 witness: the scenario has run to the return of download_all_logs.
C4_Witness == ScenarioEmptyFourth /\ pc = "returned" /\ Len(all_logs) = 6

\* C5: download_all_logs, once called, terminates (it returns or an exception
\* leaves it), for every cap, against an API that holds at most MaxRecords
\* records; a page that continues the loop has added a record and set the
\* cursor to its own.
C5_DownloadTerminates ==
    /\ (pc = "fetch") ~> (pc \notin {"fetch", "sleep"})
    /\ [][pc' = "sleep" =>
            /\ Len(all_logs') > Len(all_logs)
            /\ Truthy(cursor') /\ cursor' = Last(hist').cursor]_vars

\* C5 witness: the download ended on a failed fetch after two pages.
C5_Witness ==
    /\ pc = "returned"
    /\ Len(hist) = 3
    /\ Last(hist).kind = "timeout"
    /\ Len(all_logs) > 0

\* The last page fetched has an empty record list.
LastPageEmpty ==
    hist # <<>> /\ error = "none" /\ response.isdict /\ response.data = <<>>

\* C6: a page with an empty record list ends the loop whether or not it
\* carries a cursor: the buffer is unchanged, no delay follows and no further
\* request is issued.
C6_EmptyPageEndsLoop ==
    /\ [](LastPageEmpty =>
            /\ pc \notin {"fetch", "sleep"}
            /\ requests = Len(hist)
            /\ sleeps = Len(hist) - 1)
    /\ [][(Len(hist') = Len(hist) + 1 /\ LastPageEmpty') =>
            (all_logs' = all_logs /\ sleeps' = sleeps /\ pc' = "returned")]_vars

\* C6 witness: the second page is empty and carries a cursor, and
\* download_all_logs has returned the first page.
C6_Witness ==
    /\ Len(hist) = 2
    /\ Last(hist).kind = "ok" /\ Last(hist).data = <<>> /\ Truthy(Last(hist).cursor)
    /\ pc = "returned"
    /\ all_logs = hist[1].data

\* The last page fetched has records and no cursor (None or "").
LastPageFinal ==
    /\ hist # <<>>
    /\ Last(hist).kind = "ok"
    /\ Last(hist).data # <<>>
    /\ ~Truthy(Last(hist).cursor)

\* C7: a page with records and no cursor ends the loop right after it is
\* appended, cap reached or not: no delay and no further request follow, and
\* the buffer holds every delivered record, up to a positive cap.
C7_NoCursorEndsLoop ==
    LastPageFinal =>
        /\ pc \notin {"fetch", "sleep"}
        /\ requests = Len(hist)
        /\ sleeps = Len(hist) - 1
        /\ (max_logs = None \/ max_logs[1] = 0 \/ max_logs[1] > Len(Delivered(hist)))
               => all_logs = Delivered(hist)
        /\ (max_logs # None /\ max_logs[1] \in 1..Len(Delivered(hist)))
               => all_logs = SubSeq(Delivered(hist), 1, max_logs[1])

\* C7 witness: the second page has a record and the cursor "", no cap was
\* reached, and download_all_logs has returned both pages.
C7_Witness ==
    /\ LastPageFinal
    /\ Len(hist) = 2
    /\ Last(hist).cursor = Some(0)
    /\ truncations = 0
    /\ pc = "returned"
    /\ all_logs = Delivered(hist)

\* C8: the delay occurs only between two consecutive fetches: every delay is
\* followed at once by a fetch, none follows the last page, and the number of
\* delays is the number of fetches minus one.
C8_DelayOnlyBetweenFetches ==
    /\ [](hist # <<>> =>
            sleeps = IF pc = "fetch" THEN Len(hist) ELSE Len(hist) - 1)
    /\ [][(sleeps' # sleeps) => (sleeps' = sleeps + 1 /\ pc' = "fetch")]_vars
    /\ [][(pc = "fetch") => (requests' = requests + 1)]_vars

\* C8 witness: download_all_logs has returned after three fetches and two
\* delays.
C8_Witness == pc = "returned" /\ requests = 3 /\ sleeps = 2

\* C9 as stated: with --json-only and --csv-only both given and a log
\* downloaded, main writes both files.
C9_BothFlagsWriteBoth ==
    (pc = "exit" /\ error = "none" /\ json_only /\ csv_only /\ all_logs # <<>>) =>
        (json_file = "written" /\ csv_file = "written")

\* C9 amended: with --json-only and --csv-only both given and a log
\* downloaded, both outputs are suppressed: main writes neither file and
\* the process exits with status 0.
C9_BothFlagsWriteNeither ==
    (json_only /\ csv_only) =>
        /\ json_file = "absent" /\ csv_file = "absent"
        /\ (pc = "exit" /\ error = "none") => exit_status = Some(0)

\* C9 witness: both flags given, logs downloaded, main has finished.
C9_Witness ==
    /\ json_only /\ csv_only /\ all_logs # <<>>
    /\ pc = "exit" /\ exit_status = Some(0)
    /\ json_file = "absent" /\ csv_file = "absent"

\* The argument is missing: neither flag nor environment variable gives it,
\* or gives it empty.
Missing(v) == v \in {None, Some("")}

\* C10 as stated: with the API key or the profile id missing, main reports a
\* usage error and the process exits with status 1, before any request and
\* any file write.
C10_MissingArgExitsOne ==
    ((Missing(api_key) \/ Missing(profile)) /\ pc # "args") =>
        /\ pc = "exit" /\ error = "usage" /\ exit_status = Some(1)
        /\ requests = 0 /\ json_file = "absent" /\ csv_file = "absent"

\* C10 amended: with the API key or the profile id missing, main reports a
\* usage error and the process exits with status 2 (parser.error), before
\* any request and any file write.
C10_MissingArgExitsTwo ==
    ((Missing(api_key) \/ Missing(profile)) /\ pc # "args") =>
        /\ pc = "exit" /\ error = "usage" /\ exit_status = Some(2)
        /\ requests = 0 /\ json_file = "absent" /\ csv_file = "absent"

\* C10 witness: the key is given, the profile is not, and the process has
\* exited on the usage error.
C10_Witness ==
    /\ ~Missing(api_key) /\ Missing(profile)
    /\ pc = "exit" /\ error = "usage" /\ requests = 0

\* C15: the first request carries no cursor and every later request carries
\* exactly the cursor of the page before it; no cursor is reused or invented.
C15_CursorChain ==
    /\ Len(sent) = Len(hist)
    /\ sent # <<>> => sent[1] = None
    /\ \A i \in 2..Len(sent) : Truthy(sent[i]) /\ sent[i] = hist[i - 1].cursor

\* C15 witness: the third request has been sent with the second page's cursor.
C15_Witness == Len(sent) = 3 /\ sent[3] = Some(2) /\ sent[2] = Some(1)

\* C16: with a configured cap C >= 0, as soon as a page brings the buffer to
\* C records or more, the buffer is cut to exactly C records and the loop
\* ends, before the cursor is looked at: no delay and no further request.
C16_CapEndsLoop ==
    (/\ max_logs # None /\ max_logs[1] >= 0
     /\ Delivered(hist) # <<>>
     /\ Len(Delivered(hist)) >= max_logs[1]) =>
        /\ pc \notin {"fetch", "sleep"}
        /\ Len(all_logs) = max_logs[1]
        /\ requests = Len(hist)
        /\ sleeps = Len(hist) - 1

\* The last fetch failed at transport level.
LastFailed == hist # <<>> /\ Last(hist).kind \in RequestExceptions

\* The last fetch was answered with an empty page.
LastEmptyOk == hist # <<>> /\ Last(hist).kind = "ok" /\ Last(hist).data = <<>>

\* The files main writes for a returned sequence, given the two flags.
ExpectedJson(logs) == IF logs # <<>> /\ ~csv_only THEN "written" ELSE "absent"
ExpectedCsv(logs) == IF logs # <<>> /\ ~json_only THEN "written" ELSE "absent"

\* C17: a run whose k-th fetch fails and a run whose k-th fetch is answered
\* with an empty page have the same results, which depend on the arguments
\* and on pages 1..k-1 only: the records of those pages are returned, the
\* same files are written and the exit status is 0, never an error exit.
C17_FailureLikeEmptyPage ==
    (LastFailed \/ LastEmptyOk) =>
        /\ pc \notin {"fetch", "sleep"}
        /\ error = "none"
        /\ all_logs = Delivered(SubSeq(hist, 1, Len(hist) - 1))
        /\ exit_status = IF pc = "exit" THEN Some(0) ELSE None
        /\ pc = "exit" =>
              (json_file = ExpectedJson(all_logs) /\ csv_file = ExpectedCsv(all_logs))

\* C17 witness: the third fetch got a non-2xx status, and the process has
\* exited with status 0 after writing both files.
C17_Witness ==
    /\ Len(hist) = 3 /\ Last(hist).kind = "http_error"
    /\ pc = "exit" /\ exit_status = Some(0)
    /\ json_file = "written" /\ csv_file = "written"
    /\ Len(all_logs) >= 2

\* The last page has records and a cursor that continues the loop.
LastContinues ==
    hist # <<>> /\ Last(hist).kind = "ok" /\ Last(hist).data # <<>> /\ Truthy(Last(hist).cursor)

ArgsGiven == ~Missing(api_key) /\ ~Missing(profile)

\* C18: against an API whose every page has records and a cursor and that
\* never fails, download_all_logs with the cap absent never returns, and
\* with a positive cap C it returns after at most C requests.
C18_OnlyCapBoundsLoop ==
    /\ []((ArgsGiven /\ max_logs = None) =>
            (pc \in {"args", "fetch", "sleep"} /\ error = "none"))
    /\ []((max_logs # None /\ max_logs[1] > 0) =>
            /\ requests <= max_logs[1]
            /\ Returned => Len(all_logs) = max_logs[1])
    /\ (pc = "fetch" /\ max_logs # None /\ max_logs[1] > 0) ~> (pc = "returned")

\* C18 witness: without a cap the run is still fetching when it is cut off.
C18_Witness ==
    /\ max_logs = None
    /\ Len(hist) = EndlessFetches
    /\ pc = "sleep"

\* C11: with both required arguments given, the exit status is 0 exactly
\* when download and export completed normally, which includes the run with
\* no logs, where no file is written; it is 1 on a user interrupt and on any
\* error raised during download or export.
C11_ExitStatus ==
    (ArgsGiven /\ pc = "exit") =>
        /\ exit_status \in {Some(0), Some(1)}
        /\ exit_status = Some(0) <=> error = "none"
        /\ error \in {"none", "KeyboardInterrupt", "AttributeError", "OSError"}
        /\ error = "none" =>
              (json_file = ExpectedJson(all_logs) /\ csv_file = ExpectedCsv(all_logs))
        /\ (error = "none" /\ all_logs = <<>>) =>
              (json_file = "absent" /\ csv_file = "absent")

\* C11 witness: no logs were downloaded and the process has exited with
\* status 0 and no file.
C11_Witness ==
    /\ ArgsGiven /\ pc = "exit" /\ exit_status = Some(0)
    /\ hist # <<>> /\ all_logs = <<>>
    /\ json_file = "absent" /\ csv_file = "absent"

\* C12: a user interrupt at any point of the run makes the process exit with
\* status 1 and leaves every output file completely written or not begun,
\* never partially written.
C12_InterruptLeavesNoPartialFile ==
    (error = "KeyboardInterrupt") =>
        /\ pc = "exit" /\ exit_status = Some(1)
        /\ json_file \in {"absent", "written"}
        /\ csv_file \in {"absent", "written"}

\* The leaves of a mapping in iteration order, each with the path of keys
\* that leads to it; a leaf is any value that is not a mapping.
RECURSIVE Leaves(_, _)
Leaves(entries, path) ==
    IF entries = <<>> THEN <<>>
    ELSE LET e == Head(entries)
             p == Append(path, e.k)
         IN  (IF e.v.tag = "dict" THEN Leaves(e.v.entries, p)
              ELSE <<[path |-> p, v |-> e.v]>>)
             \o Leaves(Tail(entries), path)

\* The keys of a path joined with '_'.
RECURSIVE JoinPath(_)
JoinPath(path) ==
    IF Len(path) = 1 THEN path[1]
    ELSE path[1] \o <<"_">> \o JoinPath(Tail(path))

\* The keys of a path joined with '_', empty keys at its head left out.
RECURSIVE JoinPathFromFirstKey(_)
JoinPathFromFirstKey(path) ==
    IF path = <<>> THEN <<>>
    ELSE IF path[1] = <<>> THEN JoinPathFromFirstKey(Tail(path))
    ELSE JoinPath(path)

\* What a leaf is flattened to: a list to the string of its elements joined
\* with ', ' (the empty string for an empty list), a scalar to itself.
FlatLeaf(v) ==
    IF v.tag # "list" THEN v
    ELSE IF v.items = <<>> THEN ScalarValue("str", <<>>)
    ELSE IF Len(v.items) = 1 THEN ScalarValue("str", v.items[1].repr)
    ELSE ScalarValue("str", v.items[1].repr \o <<",", " ">> \o v.items[2].repr)

\* {"a": {"b": 1}, "c": [1, 2]} and what it flattens to, {"a_b": 1, "c": "1, 2"}.
ExampleNested ==
    DictValue(<<Pair(<<"a">>, DictValue(<<Pair(<<"b">>, ScalarValue("int", <<"1">>))>>)),
                Pair(<<"c">>, ListValue(<<ScalarValue("int", <<"1">>),
                                          ScalarValue("int", <<"2">>)>>))>>)
ExampleNestedFlat ==
    <<Pair(<<"a", "_", "b">>, ScalarValue("int", <<"1">>)),
      Pair(<<"c">>, ScalarValue("str", <<"1", ",", " ", "2">>))>>

\* {"a": []} and what it flattens to, {"a": ""}.
ExampleEmptyList == DictValue(<<Pair(<<"a">>, ListValue(<<>>))>>)
ExampleEmptyListFlat == <<Pair(<<"a">>, ScalarValue("str", <<>>))>>

ExamplesHold ==
    \A i \in 1..Len(flattened) :
        /\ logs_in[i] = ExampleNested => flattened[i] = ExampleNestedFlat
        /\ logs_in[i] = ExampleEmptyList => flattened[i] = ExampleEmptyListFlat

\* The value of the last leaf of L whose flattened key is key.
LastLeafAt(L, key) ==
    LET at == {j \in 1..Len(L) : JoinPathFromFirstKey(L[j].path) = key}
    IN  FlatLeaf(L[CHOOSE j \in at : \A m \in at : m <= j].v)

\* C13: for logs that are not empty, save_to_csv writes a header that is the
\* sorted union of the flattened keys of all logs, computed over all of them,
\* and one row per log in order, with the empty cell where a log has no
\* value for a header key.
C13_CsvHeaderAndRows ==
    (csv_pc = "saved") =>
        LET L(i) == Leaves(logs_in[i].entries, <<>>)
            keys(i) == {JoinPathFromFirstKey(L(i)[j].path) : j \in 1..Len(L(i))}
        IN  /\ logs_in # <<>>
            /\ {fieldnames[j] : j \in 1..Len(fieldnames)}
                   = UNION {keys(i) : i \in 1..Len(logs_in)}
            /\ \A j \in 1..(Len(fieldnames) - 1) : StrLess(fieldnames[j], fieldnames[j + 1])
            /\ Len(rows) = Len(logs_in)
            /\ \A i \in 1..Len(rows) :
                  /\ Len(rows[i]) = Len(fieldnames)
                  /\ \A j \in 1..Len(fieldnames) :
                        rows[i][j] = IF fieldnames[j] \in keys(i)
                                     THEN LastLeafAt(L(i), fieldnames[j]).repr
                                     ELSE <<>>

\* C13 witness: two logs are saved, the second has a key the first lacks,
\* and the first row has the empty cell in that column.
C13_Witness ==
    /\ csv_pc = "saved"
    /\ Len(logs_in) = 2
    /\ Len(fieldnames) >= 2
    /\ \E j \in 1..Len(fieldnames) :
          /\ fieldnames[j] \notin KeysOf(flattened[1])
          /\ fieldnames[j] \in KeysOf(flattened[2])
          /\ rows[1][j] = <<>>
          /\ rows[2][j] # <<>>

\* C14 as stated: _flatten_dict returns one entry per leaf, whose key is the
\* path of keys joined with '_' and whose value is the scalar itself or, for
\* a list, its elements joined with ', ' ('' for the empty list); the two
\* examples hold.
C14_OneEntryPerLeaf ==
    /\ ExamplesHold
    /\ \A i \in 1..Len(flattened) :
          LET L == Leaves(logs_in[i].entries, <<>>)
          IN  /\ Len(flattened[i]) = Len(L)
              /\ \A j \in 1..Len(L) :
                    /\ flattened[i][j].k = JoinPath(L[j].path)
                    /\ flattened[i][j].v = FlatLeaf(L[j].v)

\* C14 amended: _flatten_dict returns one entry per distinct flattened key:
\* the key is the path of keys joined with '_', empty keys at the head of
\* the path left out; leaves with the same flattened key give one entry with
\* the value of the last of them; the value is the scalar itself or, for a
\* list, its elements joined with ', ' ('' for the empty list); the two
\* examples hold.
C14_OneEntryPerKey ==
    /\ ExamplesHold
    /\ \A i \in 1..Len(flattened) :
          LET L == Leaves(logs_in[i].entries, <<>>)
              F == flattened[i]
          IN  /\ \A j, m \in 1..Len(F) : F[j].k = F[m].k => j = m
              /\ KeysOf(F) = {JoinPathFromFirstKey(L[j].path) : j \in 1..Len(L)}
              /\ \A j \in 1..Len(F) : F[j].v = LastLeafAt(L, F[j].k)

\* C14 witness: both examples have been flattened, one after the other.
C14_Witness ==
    /\ csv_pc = "saved"
    /\ logs_in = <<ExampleNested, ExampleEmptyList>>
    /\ flattened = <<ExampleNestedFlat, ExampleEmptyListFlat>>

====
